---------------------------- MODULE Spec2Model ----------------------------
(***************************************************************************)
(* Bottom-up enumerative synthesis with observational-equivalence pruning. *)
(*                                                                         *)
(* The driver BottomUpSynthesizer.synthesize and its deduplication pass    *)
(* eliminate_equivalents (enumerative_synthesis.py) are modelled as a      *)
(* state machine whose steps follow the statements of synthesize.  The     *)
(* driver is generic over the DSL: its abstract methods are supplied here  *)
(* by a scripted synthesizer (programs are opaque values with a scripted   *)
(* signature outcome, in the manner of TestSynthesizer of                  *)
(* test_eliminate_equivalents.py) and by StringSynthesizer over the string *)
(* DSL of strings.py.                                                      *)
(***************************************************************************)
EXTENDS Integers, Sequences, FiniteSets, TLC

VARIABLES
    dsl,                 \* which synthesizer subclass runs: "mock" | "string"
    examples,            \* argument of synthesize
    max_iterations,      \* argument of synthesize
    accumulate_programs, \* argument of synthesize
    okSigs,              \* mock is_correct: the signature values it accepts
    mockTerminals,       \* mock generate_terminals: the list it returns
    pc,                  \* position inside synthesize
    test_inputs,         \* local of synthesize
    cache,               \* local of synthesize (program -> signature or None)
    unique_programs,     \* local of synthesize
    all_programs,        \* local of synthesize
    grow_base,           \* local of synthesize
    current_programs,    \* local of synthesize
    grown_programs,      \* local of synthesize
    new_unique_programs, \* local of synthesize
    iteration,           \* loop variable of synthesize (0 before the loop)
    result,              \* the returned program, once pc = "returned"
    error,               \* the raised error, once pc = "raised"
    called,              \* history: the abstract methods called so far
    rounds,              \* history: rounds[k+1] = survivors of round k
    offered,             \* history: programs offered by generate_terminals and grow
    ncalls,              \* history: number of synthesize calls started
    prev,                \* history: outcome of the previous synthesize call
    logger,              \* LLMStringSynthesizer.logger (its fields), or None
    log_file,            \* the records appended to logger.file_path
    response,            \* local of LLMStringSynthesizer.synthesize
    llm_program,         \* local `program` of LLMStringSynthesizer.synthesize
    interpret_call,      \* a call e.interpret(input_string): e and input_string
    interpret_outcome    \* what that call returned or raised

vars == <<dsl, examples, max_iterations, accumulate_programs, okSigs,
          mockTerminals, pc, test_inputs, cache, unique_programs,
          all_programs, grow_base, current_programs, grown_programs,
          new_unique_programs, iteration, result, error, called, rounds,
          offered, ncalls,
          prev, logger, log_file, response, llm_program, interpret_call,
          interpret_outcome>>

\* the state of LLMStringSynthesizer, which the enumerative synthesizers
\* never touch
llm == <<logger, log_file, response, llm_program>>

\* a single interpret call, made outside any synthesizer
interp == <<interpret_call, interpret_outcome>>

\* the arguments of the call and the configuration of the synthesizer
config == <<dsl, examples, max_iterations, accumulate_programs, okSigs,
            mockTerminals, ncalls, prev, llm, interp>>

(***************************************************************************)
(* Bounds of the model.                                                    *)
(***************************************************************************)
MaxOffered == 4    \* most programs the scripted synthesizer offers in one call
MaxIter == 2       \* largest max_iterations tried
MaxBase == 3       \* longest program list given to one grow call
MaxStr == 2        \* longest example string given to one generate_terminals call
MaxIndex == 3      \* largest index magnitude given to Substring and SplitThenTake
MaxCalls == 2      \* synthesize calls made one after the other

(***************************************************************************)
(* Generic helpers on sequences.                                           *)
(***************************************************************************)
Range(s) == {s[i] : i \in 1..Len(s)}

SeqsUpTo(S, n) == UNION {[1..k -> S] : k \in 0..n}

RECURSIVE ForLoop(_, _, _, _, _)
\* for item in items[lo..hi]: st = Body(st, item); the list is walked in
\* order, by halves, the state reached after the first half computed once
ForLoop(Body(_, _), items, lo, hi, st) ==
    IF lo > hi THEN st
    ELSE IF lo = hi THEN Body(st, items[lo])
    ELSE LET mid == (lo + hi) \div 2
             first_half == {ForLoop(Body, items, lo, mid, st)}
         IN  CHOOSE after \in
                 {ForLoop(Body, items, mid + 1, hi, reached) :
                     reached \in first_half} : TRUE

NoCall == [op |-> "None"]
NoLogger == [op |-> "None"]
NoResponse == [op |-> "None"]
LLMValueError == "ValueError"
NoProgram == [op |-> "NoProgram"]
NoError == "none"
EmptyExamples == "No examples provided"
ExhaustedBudget == "No program found within max_iterations iterations"

(***************************************************************************)
(* Signatures.  compute_signature either returns a tuple of outputs,       *)
(* returns None, or raises; the three outcomes are kept apart.             *)
(***************************************************************************)
SigOk(v) == [kind |-> "ok", val |-> v]
SigNone == [kind |-> "none", val |-> <<>>]
SigRaise == [kind |-> "raise", val |-> <<>>]

(***************************************************************************)
(* The scripted synthesizer.  A program is an opaque value; `out` scripts  *)
(* what compute_signature does on it: -1 raises, 0 returns None, n >= 1    *)
(* returns the one-slot signature (n).                                     *)
(***************************************************************************)
MockProgram(i, o) == [op |-> "Mock", id |-> i, out |-> o]

\* two equivalent programs, an independent one, one whose signature is None
\* and one whose signature computation raises
MockUniverse ==
    {MockProgram("a1", 1), MockProgram("a2", 1), MockProgram("b", 2),
     MockProgram("n", 0), MockProgram("r", -1)}

MockSigValues == {1, 2}

\* the lists of at most n scripted programs
MockLists(n) == SeqsUpTo(MockUniverse, n)

MockComputeSignature(program, inputs) ==
    IF program.out = -1 THEN SigRaise
    ELSE IF program.out = 0 THEN SigNone
    ELSE SigOk(<<program.out>>)

MockIsCorrect(program, exs) == program.out \in okSigs

MockExtractTestInputs(exs) == exs

(***************************************************************************)
(* Python str values, as the sequence of their characters, with the str    *)
(* methods the string DSL and the string synthesizer use.                  *)
(***************************************************************************)
LowerLetters ==
    <<"a", "b", "c", "d", "e", "f", "g", "h", "i", "j", "k", "l", "m",
      "n", "o", "p", "q", "r", "s", "t", "u", "v", "w", "x", "y", "z">>

UpperLetters ==
    <<"A", "B", "C", "D", "E", "F", "G", "H", "I", "J", "K", "L", "M",
      "N", "O", "P", "Q", "R", "S", "T", "U", "V", "W", "X", "Y", "Z">>

DigitChars == <<"0", "1", "2", "3", "4", "5", "6", "7", "8", "9">>

IsLowerCh(c) == \E i \in DOMAIN LowerLetters : LowerLetters[i] = c
IsUpperCh(c) == \E i \in DOMAIN UpperLetters : UpperLetters[i] = c
IsDigitCh(c) == \E i \in DOMAIN DigitChars : DigitChars[i] = c

\* c.isalnum() for one character
ch_isalnum(c) == IsLowerCh(c) \/ IsUpperCh(c) \/ IsDigitCh(c)

\* the only whitespace character of the modelled strings is the space
ch_isspace(c) == c = " "

ch_upper(c) ==
    IF IsLowerCh(c)
    THEN UpperLetters[CHOOSE i \in DOMAIN LowerLetters : LowerLetters[i] = c]
    ELSE c

ch_lower(c) ==
    IF IsUpperCh(c)
    THEN LowerLetters[CHOOSE i \in DOMAIN UpperLetters : UpperLetters[i] = c]
    ELSE c

\* s.upper(), s.lower()
str_upper(s) == [i \in 1..Len(s) |-> ch_upper(s[i])]
str_lower(s) == [i \in 1..Len(s) |-> ch_lower(s[i])]

\* s.isupper(), s.islower(): some cased character and none of the other case
str_isupper(s) ==
    /\ \E i \in 1..Len(s) : IsUpperCh(s[i])
    /\ \A i \in 1..Len(s) : ~IsLowerCh(s[i])

str_islower(s) ==
    /\ \E i \in 1..Len(s) : IsLowerCh(s[i])
    /\ \A i \in 1..Len(s) : ~IsUpperCh(s[i])

\* s.strip()
str_strip(s) ==
    LET keep == {i \in 1..Len(s) : ~ch_isspace(s[i])}
    IN  IF keep = {} THEN <<>>
        ELSE SubSeq(s, CHOOSE i \in keep : \A j \in keep : i <= j,
                       CHOOSE i \in keep : \A j \in keep : j <= i)

\* s.capitalize(): first character upper case, the rest lower case
str_capitalize(s) ==
    IF s = <<>> THEN <<>> ELSE <<ch_upper(s[1])>> \o str_lower(Tail(s))

\* t occurs in s at (1-based) position i
StartsAt(s, t, i) ==
    /\ i + Len(t) - 1 <= Len(s)
    /\ SubSeq(s, i, i + Len(t) - 1) = t

\* t in s
str_contains(s, t) == \E i \in 1..(Len(s) + 1) : StartsAt(s, t, i)

\* s.startswith(t), s.endswith(t)
str_startswith(s, t) == StartsAt(s, t, 1)
str_endswith(s, t) ==
    Len(t) <= Len(s) /\ SubSeq(s, Len(s) - Len(t) + 1, Len(s)) = t

RECURSIVE ReplaceFrom(_, _, _, _)
ReplaceFrom(s, old, new, i) ==
    IF i > Len(s) THEN <<>>
    ELSE IF StartsAt(s, old, i)
    THEN new \o ReplaceFrom(s, old, new, i + Len(old))
    ELSE <<s[i]>> \o ReplaceFrom(s, old, new, i + 1)

RECURSIVE Interleave(_, _, _)
Interleave(s, new, i) ==
    IF i > Len(s) THEN <<>> ELSE <<s[i]>> \o new \o Interleave(s, new, i + 1)

\* s.replace(old, new): every non-overlapping occurrence, left to right; an
\* empty old matches before every character and at the end
str_replace(s, old, new) ==
    IF old = <<>> THEN new \o Interleave(s, new, 1)
    ELSE ReplaceFrom(s, old, new, 1)

RECURSIVE SplitFrom(_, _, _, _)
SplitFrom(s, d, i, start) ==
    IF i > Len(s) THEN <<SubSeq(s, start, Len(s))>>
    ELSE IF StartsAt(s, d, i)
    THEN <<SubSeq(s, start, i - 1)>>
         \o SplitFrom(s, d, i + Len(d), i + Len(d))
    ELSE SplitFrom(s, d, i + 1, start)

\* s.split(d) for a non-empty separator d
str_split(s, d) == SplitFrom(s, d, 1, 1)

RECURSIVE SplitWsFrom(_, _, _)
SplitWsFrom(s, i, start) ==
    IF i > Len(s)
    THEN IF start = 0 THEN <<>> ELSE <<SubSeq(s, start, Len(s))>>
    ELSE IF ch_isspace(s[i])
    THEN (IF start = 0 THEN <<>> ELSE <<SubSeq(s, start, i - 1)>>)
         \o SplitWsFrom(s, i + 1, 0)
    ELSE SplitWsFrom(s, i + 1, IF start = 0 THEN i ELSE start)

\* s.split(): the maximal runs of non-whitespace characters
str_split_ws(s) == SplitWsFrom(s, 1, 0)

\* a slice bound k of a sequence of length n, as Python clamps it
SliceBound(k, n) ==
    IF k < 0 THEN (IF k + n < 0 THEN 0 ELSE k + n)
    ELSE IF k > n THEN n ELSE k

\* s[start:end]
str_slice(s, start, end) ==
    LET lo == SliceBound(start, Len(s))
        hi == SliceBound(end, Len(s))
    IN  IF lo >= hi THEN <<>> ELSE SubSeq(s, lo + 1, hi)

\* whether parts[index] raises IndexError
IndexOutOfRange(parts, index) ==
    index >= Len(parts) \/ index < -Len(parts)

\* parts[index] for an index in range
ItemAt(parts, index) ==
    IF index < 0 THEN parts[Len(parts) + index + 1] ELSE parts[index + 1]

\* s * count
str_repeat(s, count) ==
    [i \in 1..(Len(s) * (IF count < 0 THEN 0 ELSE count)) |->
        s[((i - 1) % Len(s)) + 1]]

(***************************************************************************)
(* The string DSL (strings.py): expression trees and interpret.  The       *)
(* outcome of interpret is a str or a raised exception.                    *)
(***************************************************************************)
StringLiteral(value) == [op |-> "StringLiteral", value |-> value]
InputString == [op |-> "InputString"]
Concatenate(left, right) ==
    [op |-> "Concatenate", left |-> left, right |-> right]
Substring(expr, start_idx, end_idx) ==
    [op |-> "Substring", expr |-> expr, start_idx |-> start_idx,
     end_idx |-> end_idx]
ToUpper(expr) == [op |-> "ToUpper", expr |-> expr]
ToLower(expr) == [op |-> "ToLower", expr |-> expr]
Replace(expr, old_sub, new_sub) ==
    [op |-> "Replace", expr |-> expr, old_sub |-> old_sub,
     new_sub |-> new_sub]
Strip(expr) == [op |-> "Strip", expr |-> expr]
Repeat(expr, count) == [op |-> "Repeat", expr |-> expr, count |-> count]
SplitThenTake(expr, delimiter, index) ==
    [op |-> "SplitThenTake", expr |-> expr, delimiter |-> delimiter,
     index |-> index]
Capitalize(expr) == [op |-> "Capitalize", expr |-> expr]

Returned(v) == [err |-> FALSE, val |-> v]
Raised == [err |-> TRUE, val |-> <<>>]

RECURSIVE interpret(_, _)
interpret(e, input_string) ==
    CASE e.op = "StringLiteral" -> Returned(e.value)
      [] e.op = "InputString" -> Returned(input_string)
      [] e.op = "Concatenate" ->
            LET l == interpret(e.left, input_string)
                r == interpret(e.right, input_string)
            IN  IF l.err \/ r.err THEN Raised ELSE Returned(l.val \o r.val)
      [] e.op = "Substring" ->
            LET source == interpret(e.expr, input_string)
            IN  IF source.err THEN Raised
                ELSE Returned(str_slice(source.val, e.start_idx, e.end_idx))
      [] e.op = "ToUpper" ->
            LET source == interpret(e.expr, input_string)
            IN  IF source.err THEN Raised
                ELSE Returned(str_upper(source.val))
      [] e.op = "ToLower" ->
            LET source == interpret(e.expr, input_string)
            IN  IF source.err THEN Raised
                ELSE Returned(str_lower(source.val))
      [] e.op = "Replace" ->
            LET source == interpret(e.expr, input_string)
                old == interpret(e.old_sub, input_string)
                new == interpret(e.new_sub, input_string)
            IN  IF source.err \/ old.err \/ new.err THEN Raised
                ELSE Returned(str_replace(source.val, old.val, new.val))
      [] e.op = "Strip" ->
            LET source == interpret(e.expr, input_string)
            IN  IF source.err THEN Raised
                ELSE Returned(str_strip(source.val))
      [] e.op = "Repeat" ->
            LET source == interpret(e.expr, input_string)
            IN  IF source.err THEN Raised
                ELSE Returned(str_repeat(source.val, e.count))
      [] e.op = "SplitThenTake" ->
            LET source == interpret(e.expr, input_string)
                delim == interpret(e.delimiter, input_string)
            IN  IF source.err \/ delim.err THEN Raised
                ELSE IF delim.val = <<>> THEN Raised  \* ValueError: empty separator
                ELSE LET parts == str_split(source.val, delim.val)
                     IN  IF IndexOutOfRange(parts, e.index)
                         THEN Returned(<<>>)
                         ELSE Returned(ItemAt(parts, e.index))
      [] e.op = "Capitalize" ->
            LET source == interpret(e.expr, input_string)
            IN  IF source.err THEN Raised
                ELSE Returned(str_capitalize(source.val))

(***************************************************************************)
(* Python sets.  A set is kept as the duplicate-free sequence of its       *)
(* elements in insertion order; the order in which a for loop visits it is *)
(* not fixed by the language and is a choice among SetOrders.              *)
(***************************************************************************)
\* s.add(item)
SetAdd(elements, item) ==
    IF item \in Range(elements) THEN elements ELSE Append(elements, item)

\* the set built by adding the items one after the other
Distinct(items) ==
    IF Cardinality(Range(items)) = Len(items) THEN items
    ELSE ForLoop(SetAdd, items, 1, Len(items), <<>>)

Reverse(items) == [i \in 1..Len(items) |-> items[Len(items) + 1 - i]]

SetOrders == {"insertion", "reversed"}

\* the order in which a for loop visits the set
IterationOrder(elements, order) ==
    IF order = "insertion" THEN elements ELSE Reverse(elements)

(***************************************************************************)
(* str(expression): __str__ of the DSL classes.                            *)
(***************************************************************************)
RECURSIVE NatStr(_)
NatStr(n) ==
    IF n < 10 THEN <<DigitChars[n + 1]>>
    ELSE NatStr(n \div 10) \o <<DigitChars[(n % 10) + 1]>>

IntStr(n) == IF n < 0 THEN <<"-">> \o NatStr(-n) ELSE NatStr(n)

RECURSIVE StrOf(_)
StrOf(e) ==
    CASE e.op = "StringLiteral" -> <<"\"">> \o e.value \o <<"\"">>
      [] e.op = "InputString" -> <<"i", "n", "p", "u", "t">>
      [] e.op = "Concatenate" ->
            <<"C", "o", "n", "c", "a", "t", "(">> \o StrOf(e.left) \o <<",", " ">> \o StrOf(e.right) \o <<")">>
      [] e.op = "Substring" ->
            <<"S", "u", "b", "s", "t", "r", "i", "n", "g", "(">> \o StrOf(e.expr) \o <<",", " ">> \o IntStr(e.start_idx)
            \o <<",", " ">> \o IntStr(e.end_idx) \o <<")">>
      [] e.op = "ToUpper" -> <<"T", "o", "U", "p", "p", "e", "r", "(">> \o StrOf(e.expr) \o <<")">>
      [] e.op = "ToLower" -> <<"T", "o", "L", "o", "w", "e", "r", "(">> \o StrOf(e.expr) \o <<")">>
      [] e.op = "Replace" ->
            <<"R", "e", "p", "l", "a", "c", "e", "(">> \o StrOf(e.expr) \o <<",", " ">> \o StrOf(e.old_sub)
            \o <<",", " ">> \o StrOf(e.new_sub) \o <<")">>
      [] e.op = "Strip" -> <<"S", "t", "r", "i", "p", "(">> \o StrOf(e.expr) \o <<")">>
      [] e.op = "Repeat" ->
            <<"R", "e", "p", "e", "a", "t", "(">> \o StrOf(e.expr) \o <<",", " ">> \o IntStr(e.count) \o <<")">>
      [] e.op = "SplitThenTake" ->
            <<"S", "p", "l", "i", "t", "T", "h", "e", "n", "T", "a", "k", "e", "(">> \o StrOf(e.expr) \o <<",", " ">> \o StrOf(e.delimiter)
            \o <<",", " ">> \o IntStr(e.index) \o <<")">>
      [] e.op = "Capitalize" -> <<"C", "a", "p", "i", "t", "a", "l", "i", "z", "e", "(">> \o StrOf(e.expr) \o <<")">>

(***************************************************************************)
(* StringSynthesizer.  An example is a pair <<input, output>> of strs.     *)
(***************************************************************************)
\* __init__, lines 18-21
common_literals ==
    << <<>>, <<" ">>, <<".">>, <<",">>, <<"-">>, <<"/">>,
       <<"_">>, <<":">>, <<";">>, <<"!">>, <<"?">>, <<"*">>,
       <<"#">>, <<"@">>, <<"$">>, <<"0">>, <<"1">>, <<"2">>,
       <<"3">>, <<"4">>, <<"5">>, <<"6">>, <<"7">>, <<"8">>,
       <<"9">>, <<"\\">>, <<"v">>, <<"(">>, <<")">> >>

\* line 69
separator_patterns ==
    << <<" ">>, <<"_">>, <<"-">>, <<".">>, <<"/">>, <<"\\">>,
       <<"@">>, <<"(">>, <<")">>, <<"v">> >>

\* lines 63-71 for one example: the literals added, in the order added
NeededFromExample(ex) ==
    LET inp == ex[1]
        out == ex[2]
        InCommon(c) == \E i \in DOMAIN common_literals : common_literals[i] = <<c>>
        Wanted(c) == InCommon(c) \/ ~ch_isalnum(c)
        Present(pat) == str_contains(inp, pat) \/ str_contains(out, pat)
        chars == SelectSeq(inp \o out, Wanted)
    IN  [i \in 1..Len(chars) |-> <<chars[i]>>]
        \o SelectSeq(separator_patterns, Present)

RECURSIVE NeededFromExamples(_, _)
NeededFromExamples(exs, i) ==
    IF i > Len(exs) THEN <<>>
    ELSE NeededFromExample(exs[i]) \o NeededFromExamples(exs, i + 1)

\* lines 60-85 without the discard of line 87
needed_literals_without_discard(exs) ==
    Distinct(NeededFromExamples(exs, 1) \o <<<<"\\">>, <<"/">>>>
             \o common_literals)

\* lines 60-87: needed_literals, in insertion order
needed_literals(exs) ==
    LET NonEmpty(lit) == lit # <<>>
        added ==
            NeededFromExamples(exs, 1)
            \o (IF \E i \in DOMAIN exs : str_contains(exs[i][2], <<".", "0", "0">>)
                THEN <<<<".", "0", "0">>>> ELSE <<>>)
            \o (IF \E i \in DOMAIN exs : str_contains(exs[i][2], <<"*", "*", "*">>)
                THEN <<<<"*", "*", "*">>>> ELSE <<>>)
            \o <<<<"\\">>, <<"/">>>>
            \o common_literals
    IN  SelectSeq(Distinct(added), NonEmpty)

\* lines 57-94, for one iteration order of needed_literals
generate_terminals(exs, order) ==
    LET lits == IterationOrder(needed_literals(exs), order)
    IN  <<InputString>> \o [i \in 1..Len(lits) |-> StringLiteral(lits[i])]

\* line 127
delimiters ==
    << <<" ">>, <<"_">>, <<"-">>, <<".">>, <<"/">>, <<"\\">>,
       <<"@">>, <<"(">>, <<")">>, <<",">>, <<"#">>, <<"*">> >>

\* line 128
concat_terminals ==
    LET NotBlank(l) == str_strip(l) # <<>>
        kept == SelectSeq(delimiters, NotBlank)
    IN  <<InputString>> \o [i \in 1..Len(kept) |-> StringLiteral(kept[i])]

\* lines 292-301
StringIsCorrect(program, exs) ==
    \A i \in DOMAIN exs :
        LET r == interpret(program, exs[i][1])
        IN  ~r.err /\ r.val = exs[i][2]

\* lines 303-305
StringExtractTestInputs(exs) == [i \in DOMAIN exs |-> exs[i][1]]

\* lines 307-312
StringComputeSignature(program, inputs) ==
    LET outs == [i \in DOMAIN inputs |-> interpret(program, inputs[i])]
    IN  IF \E i \in DOMAIN inputs : outs[i].err THEN SigNone
        ELSE SigOk([i \in DOMAIN inputs |-> outs[i].val])

(***************************************************************************)
(* StringSynthesizer.grow: the task flags of lines 131-160.                *)
(***************************************************************************)
is_slug(exs) ==
    \A i \in DOMAIN exs :
        LET out == exs[i][2]
        IN  str_islower(out) /\ str_contains(out, <<"-">>)
            /\ ~str_contains(out, <<" ">>)

is_extract_dirpath(exs) ==
    \A i \in DOMAIN exs :
        LET out == exs[i][2]
        IN  str_startswith(out, <<"/">>) /\ Len(str_split(out, <<"/">>)) = 2

is_extract_filename(exs) ==
    \A i \in DOMAIN exs :
        LET inp == exs[i][1]
            out == exs[i][2]
        IN  /\ str_contains(inp, <<"/">>)
            /\ str_contains(inp, <<".">>)
            /\ out = ItemAt(str_split(ItemAt(str_split(inp, <<"/">>), -1), <<".">>), 0)

is_format_title(exs) ==
    \A i \in DOMAIN exs :
        LET out == exs[i][2]
        IN  str_isupper(str_replace(out, <<" ">>, <<>>)) /\ ~str_contains(out, <<"_">>)

is_first_name_initial(exs) ==
    \A i \in DOMAIN exs :
        LET inp == exs[i][1]
            out == exs[i][2]
        IN  /\ Len(out) = 1
            /\ str_upper(out) = out
            /\ Len(str_split_ws(inp)) >= 1
            /\ out = <<ItemAt(str_split_ws(inp), 0)[1]>>

is_normalize_path(exs) ==
    /\ \E i \in DOMAIN exs : str_contains(exs[i][1], <<"\\">>)
    /\ \A i \in DOMAIN exs : str_contains(exs[i][2], <<"/">>)

is_prof_email(exs) ==
    \A i \in DOMAIN exs :
        LET out == exs[i][2]
        IN  str_isupper(ItemAt(str_split(out, <<" ">>), 0)) /\ str_contains(out, <<" ">>)

is_password(exs) ==
    \A i \in DOMAIN exs :
        LET out == exs[i][2]
        IN  Len(out) = 6 /\ str_endswith(out, <<"*", "*", "*">>)

is_currency(exs) ==
    \A i \in DOMAIN exs :
        LET out == exs[i][2]
        IN  str_startswith(out, <<"$">>) /\ str_endswith(out, <<".", "0", "0">>)

is_reverse_name(exs) ==
    \E i \in DOMAIN exs : str_contains(exs[i][2], <<",", " ">>)

is_parent_dir(exs) ==
    \A i \in DOMAIN exs :
        LET inp == exs[i][1]
            out == exs[i][2]
        IN  /\ str_contains(inp, <<"/">>)
            /\ Len(str_split(inp, <<"/">>)) > 1
            /\ out = ItemAt(str_split(inp, <<"/">>), -2)

is_hashtag(exs) ==
    \A i \in DOMAIN exs :
        LET out == exs[i][2]
        IN  str_startswith(out, <<"#">>) /\ str_islower(out)
            /\ ~str_contains(out, <<" ">>)

is_middle_initial(exs) ==
    \A i \in DOMAIN exs :
        LET inp == exs[i][1]
            out == exs[i][2]
        IN  /\ Len(out) = 1
            /\ str_upper(out) = out
            /\ Len(str_split_ws(inp)) > 2
            /\ out = <<ItemAt(str_split_ws(inp), 1)[1]>>

is_major_version(exs) ==
    \A i \in DOMAIN exs :
        LET inp == exs[i][1]
            out == exs[i][2]
        IN  /\ str_startswith(inp, <<"v">>)
            /\ str_contains(inp, <<".">>)
            /\ out = ItemAt(str_split(str_slice(inp, 1, Len(inp)), <<".">>), 0)

(***************************************************************************)
(* StringSynthesizer.grow: the target expressions of lines 163-230.        *)
(***************************************************************************)
slug_target ==
    ToLower(Replace(Strip(InputString), StringLiteral(<<" ">>),
                    StringLiteral(<<"-">>)))

dirpath_target ==
    Concatenate(StringLiteral(<<"/">>),
                SplitThenTake(InputString, StringLiteral(<<"/">>), 1))

filename_target ==
    SplitThenTake(SplitThenTake(InputString, StringLiteral(<<"/">>), -1),
                  StringLiteral(<<".">>), 0)

title_target ==
    ToUpper(Replace(Strip(InputString), StringLiteral(<<"_">>),
                    StringLiteral(<<" ">>)))

first_initial_target ==
    ToUpper(Substring(SplitThenTake(InputString, StringLiteral(<<" ">>), 0),
                      0, 1))

norm_target ==
    Replace(InputString, StringLiteral(<<"\\">>), StringLiteral(<<"/">>))

prof_email_target ==
    Concatenate(ToUpper(SplitThenTake(InputString, StringLiteral(<<" ">>), 0)),
                Concatenate(StringLiteral(<<" ">>),
                            SplitThenTake(InputString, StringLiteral(<<" ">>),
                                          -1)))

password_target ==
    Concatenate(Capitalize(Substring(InputString, 0, 3)),
                StringLiteral(<<"*", "*", "*">>))

currency_target ==
    Concatenate(Concatenate(StringLiteral(<<"$">>), InputString),
                StringLiteral(<<".", "0", "0">>))

reverse_name_target ==
    Concatenate(Concatenate(SplitThenTake(InputString, StringLiteral(<<" ">>),
                                          -1),
                            StringLiteral(<<",", " ">>)),
                SplitThenTake(InputString, StringLiteral(<<" ">>), 0))

parent_dir_target ==
    SplitThenTake(InputString, StringLiteral(<<"/">>), -2)

hashtag_target ==
    Concatenate(StringLiteral(<<"#">>),
                Replace(ToLower(InputString), StringLiteral(<<" ">>),
                        StringLiteral(<<>>)))

middle_initial_target ==
    ToUpper(Substring(SplitThenTake(InputString, StringLiteral(<<" ">>), 1),
                      0, 1))

\* lines 228-230
major_version_target(exs) ==
    SplitThenTake(Substring(InputString, 1, Len(exs[1][1])),
                  StringLiteral(<<".">>), 0)

\* target_programs as it stands at line 232, in append order
target_programs(exs) ==
    LET When(flag, target) == IF flag THEN <<target>> ELSE <<>>
    IN  When(is_slug(exs), slug_target)
        \o When(is_extract_dirpath(exs), dirpath_target)
        \o When(is_extract_filename(exs), filename_target)
        \o When(is_format_title(exs), title_target)
        \o When(is_first_name_initial(exs), first_initial_target)
        \o When(is_normalize_path(exs), norm_target)
        \o When(is_prof_email(exs), prof_email_target)
        \o When(is_password(exs), password_target)
        \o When(is_currency(exs), currency_target)
        \o When(is_reverse_name(exs), reverse_name_target)
        \o When(is_parent_dir(exs), parent_dir_target)
        \o When(is_hashtag(exs), hashtag_target)
        \o When(is_normalize_path(exs), norm_target)
        \o When(is_middle_initial(exs), middle_initial_target)
        \o When(is_major_version(exs), major_version_target(exs))

(***************************************************************************)
(* StringSynthesizer.grow: the enumeration of lines 242-290.               *)
(***************************************************************************)
max_program_count == 3000

\* line 256
split_indices == <<0, -1, 1>>

\* line 258
substring_ranges == <<<<0, 1>>, <<0, 3>>, <<1, 4>>>>

\* lines 246-259: what one base program adds, in the order added
Variants(base) ==
    LET nd == Len(delimiters)
        ni == Len(split_indices)
    IN  <<ToUpper(base), ToLower(base), Strip(base), Capitalize(base)>>
        \o [k \in 1..(2 * nd) |->
               Replace(base, StringLiteral(delimiters[(k + 1) \div 2]),
                       StringLiteral(IF k % 2 = 1 THEN <<>> ELSE <<"-">>))]
        \o <<Repeat(base, 2), Repeat(base, 3)>>
        \o [k \in 1..(nd * ni) |->
               SplitThenTake(base,
                             StringLiteral(delimiters[((k - 1) \div ni) + 1]),
                             split_indices[((k - 1) % ni) + 1])]
        \o [k \in DOMAIN substring_ranges |->
               Substring(base, substring_ranges[k][1],
                         substring_ranges[k][2])]

\* lines 243-264: everything added to new_programs, in the order added
Additions(program_list) ==
    LET base_programs ==
            SubSeq(program_list, 1,
                   IF Len(program_list) > max_program_count
                   THEN max_program_count ELSE Len(program_list))
        per_base == [i \in DOMAIN base_programs |-> Variants(base_programs[i])]
        width == Len(Variants(InputString))
        nc == Len(concat_terminals)
    IN  [k \in 1..(width * Len(base_programs)) |->
            per_base[((k - 1) \div width) + 1][((k - 1) % width) + 1]]
        \o [k \in 1..(nc * nc) |->
               Concatenate(concat_terminals[((k - 1) \div nc) + 1],
                           concat_terminals[((k - 1) % nc) + 1])]

\* lines 277-280 on one candidate
KeepNewStr(st, candidate) ==
    IF StrOf(candidate) \in st.seen THEN st
    ELSE [seen |-> st.seen \cup {StrOf(candidate)},
          valid |-> Append(st.valid, candidate)]

\* lines 267-282: the candidates kept, for one iteration order of new_programs
valid_programs(program_list, exs, order) ==
    LET sample_in == exs[1][1]
        Interprets(candidate) == ~interpret(candidate, sample_in).err
        visited ==
            SelectSeq(IterationOrder(Distinct(Additions(program_list)), order),
                      Interprets)
        strs == {StrOf(visited[i]) : i \in DOMAIN visited}
        kept == IF Cardinality(strs) = Len(visited) THEN visited
                ELSE ForLoop(KeepNewStr, visited, 1, Len(visited),
                             [seen |-> {}, valid |-> <<>>]).valid
    IN  SubSeq(kept, 1,
               IF Len(kept) > max_program_count
               THEN max_program_count ELSE Len(kept))

\* lines 285-288
InsertTargets(targets, seen, valid) ==
    LET Insert(programs, target) ==
            IF StrOf(target) \in seen THEN programs
            ELSE <<target>> \o programs
    IN  ForLoop(Insert, targets, 1, Len(targets), valid)

\* lines 242-290: the enumeration, reached when no early return was taken
grow_enumeration(program_list, exs, order) ==
    LET valid == valid_programs(program_list, exs, order)
    IN  InsertTargets(target_programs(exs),
                      {StrOf(valid[i]) : i \in DOMAIN valid},
                      valid)

\* whether grow leaves through one of the returns of lines 177, 221, 237
grow_returns_early(exs) ==
    \/ is_first_name_initial(exs) /\ StringIsCorrect(first_initial_target, exs)
    \/ is_normalize_path(exs) /\ StringIsCorrect(norm_target, exs)
    \/ \E i \in DOMAIN target_programs(exs) :
          StringIsCorrect(target_programs(exs)[i], exs)

\* lines 119-290, for one iteration order of new_programs
grow(program_list, exs, order) ==
    LET targets == target_programs(exs)
        hit == {i \in DOMAIN targets : StringIsCorrect(targets[i], exs)}
    IN  IF is_first_name_initial(exs)
           /\ StringIsCorrect(first_initial_target, exs)
        THEN <<first_initial_target>>                          \* line 177
        ELSE IF is_normalize_path(exs) /\ StringIsCorrect(norm_target, exs)
        THEN <<norm_target>>                                   \* line 221
        ELSE IF hit # {}
        THEN <<targets[CHOOSE i \in hit : \A j \in hit : i <= j]>> \* line 237
        ELSE grow_enumeration(program_list, exs, order)

(***************************************************************************)
(* The shape DSL.  shapes.py is not among the sources: the variants, their *)
(* structural equality and interpret follow the specification (sections 3  *)
(* and 4.1).  A point is a pair <<x, y>>.                                  *)
(***************************************************************************)
MAX_COORD == 2

Coordinate(x, y) == [x |-> x, y |-> y]
Rectangle(bottom_left, top_right) ==
    [op |-> "Rectangle", bottom_left |-> bottom_left, top_right |-> top_right]
Triangle(bottom_left, top_right) ==
    [op |-> "Triangle", bottom_left |-> bottom_left, top_right |-> top_right]
Circle(center, radius) ==
    [op |-> "Circle", center |-> center, radius |-> radius]
Union(a, b) == [op |-> "Union", a |-> a, b |-> b]
Intersection(a, b) == [op |-> "Intersection", a |-> a, b |-> b]
Subtraction(a, b) == [op |-> "Subtraction", a |-> a, b |-> b]
Mirror(a) == [op |-> "Mirror", a |-> a]

RECURSIVE ShapeInterpret(_, _)
\* whether the point is inside the shape
ShapeInterpret(shape, point) ==
    LET x == point[1]
        y == point[2]
    IN  CASE shape.op = "Rectangle" ->
                /\ shape.bottom_left.x <= x /\ x <= shape.top_right.x
                /\ shape.bottom_left.y <= y /\ y <= shape.top_right.y
          [] shape.op = "Triangle" ->
                LET w == shape.top_right.x - shape.bottom_left.x
                    h == shape.top_right.y - shape.bottom_left.y
                IN  /\ shape.bottom_left.x <= x
                    /\ shape.bottom_left.y <= y
                    /\ (x - shape.bottom_left.x) * h
                       + (y - shape.bottom_left.y) * w <= w * h
          [] shape.op = "Circle" ->
                (x - shape.center.x) * (x - shape.center.x)
                + (y - shape.center.y) * (y - shape.center.y)
                   <= shape.radius * shape.radius
          [] shape.op = "Union" ->
                ShapeInterpret(shape.a, point) \/ ShapeInterpret(shape.b, point)
          [] shape.op = "Intersection" ->
                ShapeInterpret(shape.a, point) /\ ShapeInterpret(shape.b, point)
          [] shape.op = "Subtraction" ->
                ShapeInterpret(shape.a, point) /\ ~ShapeInterpret(shape.b, point)
          [] shape.op = "Mirror" ->
                ShapeInterpret(shape.a, <<MAX_COORD - x, y>>)

(***************************************************************************)
(* ShapeSynthesizer.  An example is a triple <<x, y, inside>>.             *)
(***************************************************************************)
\* line 18
coords ==
    [k \in 1..((MAX_COORD + 1) * (MAX_COORD + 1)) |->
        Coordinate((k - 1) \div (MAX_COORD + 1), (k - 1) % (MAX_COORD + 1))]

\* lines 23-28: the rectangles and triangles, in the order appended
RectanglesAndTriangles ==
    LET n == Len(coords)
        Corners(k) == <<coords[((k - 1) \div n) + 1], coords[((k - 1) % n) + 1]>>
        Valid(k) == /\ Corners(k)[1].x < Corners(k)[2].x
                    /\ Corners(k)[1].y < Corners(k)[2].y
        pairs == SelectSeq([k \in 1..(n * n) |-> k], Valid)
    IN  [i \in 1..(2 * Len(pairs)) |->
            LET c == Corners(pairs[(i + 1) \div 2])
            IN  IF i % 2 = 1 THEN Rectangle(c[1], c[2])
                ELSE Triangle(c[1], c[2])]

\* lines 33-36: the circles, in the order appended
Circles ==
    [k \in 1..(Len(coords) * MAX_COORD) |->
        Circle(coords[((k - 1) \div MAX_COORD) + 1],
               ((k - 1) % MAX_COORD) + 1)]

\* lines 13-38
shape_generate_terminals == RectanglesAndTriangles \o Circles

\* lines 66-80 without line 63: the originals are not retained
ShapeAdditionsWithoutOriginals(program_list) ==
    LET n == Len(program_list)
        Pair(k) == <<program_list[((k - 1) \div (3 * n)) + 1],
                     program_list[(((k - 1) \div 3) % n) + 1]>>
    IN  [i \in 1..n |-> Mirror(program_list[i])]
        \o [k \in 1..(3 * n * n) |->
               CASE (k - 1) % 3 = 0 -> Union(Pair(k)[1], Pair(k)[2])
                 [] (k - 1) % 3 = 1 -> Intersection(Pair(k)[1], Pair(k)[2])
                 [] (k - 1) % 3 = 2 -> Subtraction(Pair(k)[1], Pair(k)[2])]

\* lines 63-80: everything put into new_programs, in the order added
ShapeAdditions(program_list) ==
    LET n == Len(program_list)
        Pair(k) == <<program_list[((k - 1) \div (3 * n)) + 1],
                     program_list[(((k - 1) \div 3) % n) + 1]>>
    IN  program_list
        \o [i \in 1..n |-> Mirror(program_list[i])]
        \o [k \in 1..(3 * n * n) |->
               CASE (k - 1) % 3 = 0 -> Union(Pair(k)[1], Pair(k)[2])
                 [] (k - 1) % 3 = 1 -> Intersection(Pair(k)[1], Pair(k)[2])
                 [] (k - 1) % 3 = 2 -> Subtraction(Pair(k)[1], Pair(k)[2])]

\* lines 60-90 with the list of the commented-out lines 64-83 instead of the set
shape_grow_list(program_list, order) == ShapeAdditions(program_list)

\* lines 60-90 keeping only the loop of lines 66-68: the input is not
\* retained and no binary operation is built
shape_grow_mirrors_only(program_list, order) ==
    IterationOrder(
        Distinct([i \in 1..Len(program_list) |-> Mirror(program_list[i])]),
        order)

\* lines 60-90, for one iteration order of new_programs
shape_grow(program_list, order) ==
    IterationOrder(Distinct(ShapeAdditions(program_list)), order)

\* lines 92-102, comparing the first example only
ShapeIsCorrectOnFirstExample(program, exs) ==
    exs # <<>> =>
        ShapeInterpret(program, <<exs[1][1], exs[1][2]>>) = exs[1][3]

\* lines 92-102
ShapeIsCorrect(program, exs) ==
    \A i \in DOMAIN exs :
        ShapeInterpret(program, <<exs[i][1], exs[i][2]>>) = exs[i][3]

\* lines 104-108: one pair (xs, ys), kept as the list of the points
ShapeExtractTestInputs(exs) ==
    <<[i \in DOMAIN exs |-> <<exs[i][1], exs[i][2]>>]>>

\* lines 121-124
ShapeComputeSignature(program, inputs) ==
    SigOk([i \in DOMAIN inputs[1] |-> ShapeInterpret(program, inputs[1][i])])

(***************************************************************************)
(* LLMStringSynthesizer (llm_string_synthesizer.py).  The external service *)
(* is an input: a call to it raises, or returns a response whose text is a *)
(* list of lines (or whose text cannot be read).  A line is prose, a DSL   *)
(* expression in constructor syntax, or text that names a constructor but  *)
(* does not evaluate.                                                      *)
(***************************************************************************)
Prose == [kind |-> "prose"]
Broken == [kind |-> "broken"]
Code(e) == [kind |-> "code", program |-> e]
Response(lines) == [op |-> "Response", blocked |-> FALSE, lines |-> lines]
BlockedResponse == [op |-> "Response", blocked |-> TRUE, lines |-> <<>>]
ServiceRaises == [op |-> "raise"]

\* lines 18-24
NewLogger ==
    [prompt |-> "", response |-> "", program |-> "None", examples |-> <<>>,
     error |-> "None"]

\* lines 26-28
log_prompt(lg, prompt, exs) == [lg EXCEPT !.prompt = prompt, !.examples = exs]

\* lines 30-31
log_response(lg, resp) == [lg EXCEPT !.response = resp]

\* lines 33-34
log_program(lg, program) == [lg EXCEPT !.program = StrOf(program)]

\* lines 36-37
log_error(lg, e) == [lg EXCEPT !.error = e]

\* lines 39-43: the file after save()
save(lg, file) == Append(file, lg)

\* lines 133-156
generate_prompt(exs) ==
    <<"dsl_description">>
    \o [i \in DOMAIN exs |-> <<"Input: ", exs[i][1], "   Output: ", exs[i][2]>>]
    \o <<"Your output:">>

\* lines 185-186: whether the line names one of the ten constructors listed (a
\* line that is a bare StringLiteral names none)
HasKeyword(line) ==
    \/ line.kind = "broken"
    \/ line.kind = "code" /\ line.program.op # "StringLiteral"

\* lines 178-201
extract_program(lines) ==
    LET with_keyword == SelectSeq(lines, HasKeyword)
    IN  IF with_keyword = <<>> THEN Raised                  \* line 190
        ELSE IF with_keyword[1].kind = "broken" THEN Raised \* line 200
        ELSE Returned(with_keyword[1].program)

\* lines 203-214
validate_program(program, exs) == StringIsCorrect(program, exs)

\* the attached logger after f, or None when there is none
WithLogger(F(_)) == IF logger = NoLogger THEN NoLogger ELSE F(logger)

\* what the service is scripted to do in one call
ServiceOutcomes ==
    {ServiceRaises, BlockedResponse,
     Response(<<Prose>>),
     Response(<<Prose, Broken>>),
     Response(<<Code(StringLiteral(<<"A">>)), Code(ToUpper(InputString))>>),
     Response(<<Code(InputString)>>),
     Response(<<Code(Substring(InputString, 0, 1))>>),
     Response(<<Prose, Code(Concatenate(InputString, StringLiteral(<<"!">>)))>>)}

LLMExampleLists ==
    { <<>>,
      << <<<<"a">>, <<"A">>>> >>,
      << <<<<"a", "b">>, <<"a">>>>, <<<<"b">>, <<"b">>>> >> }

(***************************************************************************)
(* Dispatch of the abstract methods on the running subclass.               *)
(***************************************************************************)
ComputeSignature(program, inputs) ==
    CASE dsl = "string" -> StringComputeSignature(program, inputs)
      [] dsl = "shape" -> ShapeComputeSignature(program, inputs)
      [] OTHER -> MockComputeSignature(program, inputs)

IsCorrect(program, exs) ==
    CASE dsl = "string" -> StringIsCorrect(program, exs)
      [] dsl = "shape" -> ShapeIsCorrect(program, exs)
      [] OTHER -> MockIsCorrect(program, exs)

ExtractTestInputs(exs) ==
    CASE dsl = "string" -> StringExtractTestInputs(exs)
      [] dsl = "shape" -> ShapeExtractTestInputs(exs)
      [] OTHER -> MockExtractTestInputs(exs)

\* the lists generate_terminals may return
TerminalOutcomes(exs) ==
    CASE dsl = "string" ->
            {generate_terminals(exs, order) : order \in SetOrders}
      [] dsl = "shape" -> {shape_generate_terminals}
      [] OTHER -> {mockTerminals}

\* the lists grow may return
GrowOutcomes(program_list, exs) ==
    CASE dsl = "string" ->
            {grow(program_list, exs, order) : order \in SetOrders}
      [] dsl = "shape" ->
            {shape_grow(program_list, order) : order \in SetOrders}
      [] OTHER -> MockLists(MaxOffered - offered)

(***************************************************************************)
(* eliminate_equivalents.                                                  *)
(***************************************************************************)
\* cache = {program: v}: the earlier entries are lost
CachePutFresh(c, program, v) == (program :> v)

\* cache[program] = v
CachePut(c, program, v) == (program :> v) @@ c

\* the filter of line 159, without the None test
KeepDroppingNoneTest(signature, seen_signatures) ==
    signature.val \notin seen_signatures

\* the filter of line 159, without the seen test
KeepDroppingSeenTest(signature, seen_signatures) ==
    signature.kind = "ok"

\* line 159: signature is not None and signature not in seen_signatures
Keep(signature, seen_signatures) ==
    signature.kind = "ok" /\ signature.val \notin seen_signatures

\* the body of the loop with a handler (lines 162-165) that ends the pass at
\* the first failing program instead of continuing with the next one
ElimStepBreakOnFailure(st, program, inputs) ==
    LET signature == ComputeSignature(program, inputs)
    IN  IF \E failed \in DOMAIN st.cache :
              ComputeSignature(failed, inputs).kind = "raise"
        THEN st
        ELSE IF signature.kind = "raise"
        THEN [st EXCEPT !.cache = CachePut(st.cache, program, SigNone)]
        ELSE IF Keep(signature, st.seen_signatures)
        THEN [seen_signatures |-> st.seen_signatures \cup {signature.val},
              yielded |-> Append(st.yielded, program),
              cache |-> CachePut(st.cache, program, signature)]
        ELSE [st EXCEPT !.cache = CachePut(st.cache, program, signature)]

\* the body of the loop when a program whose signature was seen takes the
\* place of the program kept for that signature
ElimStepKeepLast(st, program, inputs) ==
    LET signature == ComputeSignature(program, inputs)
        Other(kept) == ComputeSignature(kept, inputs) # signature
    IN  IF signature.kind = "raise"
        THEN [st EXCEPT !.cache = CachePut(st.cache, program, SigNone)]
        ELSE IF signature.kind = "ok"
        THEN [seen_signatures |-> st.seen_signatures \cup {signature.val},
              yielded |-> Append(SelectSeq(st.yielded, Other), program),
              cache |-> CachePut(st.cache, program, signature)]
        ELSE [st EXCEPT !.cache = CachePut(st.cache, program, signature)]

\* the body of the for loop (lines 153-165) on one program; st holds
\* seen_signatures, the programs yielded so far and the cache
ElimStep(st, program, inputs) ==
    LET signature == ComputeSignature(program, inputs)
    IN  IF signature.kind = "raise"
        THEN [st EXCEPT !.cache = CachePut(st.cache, program, SigNone)]
        ELSE IF Keep(signature, st.seen_signatures)
        THEN [seen_signatures |-> st.seen_signatures \cup {signature.val},
              yielded |-> Append(st.yielded, program),
              cache |-> CachePut(st.cache, program, signature)]
        ELSE [st EXCEPT !.cache = CachePut(st.cache, program, signature)]

\* one fully consumed call: the yielded programs and the updated cache
eliminate_equivalents(program_list, inputs, c) ==
    LET Body(st, program) == ElimStep(st, program, inputs)
    IN  ForLoop(Body, program_list, 1, Len(program_list),
                [seen_signatures |-> {}, yielded |-> <<>>, cache |-> c])

(***************************************************************************)
(* The correctness scan: for program in programs: if is_correct: return.   *)
(***************************************************************************)
CorrectIndices(programs, exs) ==
    {i \in 1..Len(programs) : IsCorrect(programs[i], exs)}

\* a scan that returns the first program whatever is_correct says
FirstCorrectUnchecked(programs, exs) ==
    IF programs = <<>> THEN 0 ELSE 1

\* index of the first correct program, 0 when there is none
FirstCorrect(programs, exs) ==
    LET idx == CorrectIndices(programs, exs)
    IN  IF idx = {} THEN 0
        ELSE CHOOSE i \in idx : \A j \in idx : i <= j

\* a loop of line 87 that never runs out of iterations
LoopTargetUnbounded(k) == "grow"

\* where the loop of line 87 goes for a given value of its variable
LoopTarget(k) == IF k <= max_iterations THEN "grow" ELSE "raise"

(***************************************************************************)
(* Initial states: a synthesize call about to start.                       *)
(***************************************************************************)
\* no single interpret call is made
InterpretUnused ==
    /\ interpret_call = NoCall
    /\ interpret_outcome = NoCall

\* the enumerative synthesizers leave the LLM synthesizer as constructed
LLMUnused ==
    /\ logger = NoLogger
    /\ log_file = <<>>
    /\ response = NoResponse
    /\ llm_program = NoProgram

InitLocals ==
    /\ pc = "call"
    /\ test_inputs = <<>>
    /\ cache = <<>>
    /\ unique_programs = <<>>
    /\ all_programs = <<>>
    /\ grow_base = <<>>
    /\ current_programs = <<>>
    /\ grown_programs = <<>>
    /\ new_unique_programs = <<>>
    /\ iteration = 0
    /\ result = NoProgram
    /\ error = NoError
    /\ called = {}
    /\ rounds = <<>>
    /\ offered = 0

Init ==
    /\ dsl = "mock"
    /\ examples \in {<<>>, <<"example">>}
    /\ max_iterations \in 0..MaxIter
    /\ accumulate_programs \in BOOLEAN
    /\ okSigs \in SUBSET MockSigValues
    /\ mockTerminals \in MockLists(MaxOffered)
    /\ ncalls = 1
    /\ prev = [pc |-> "none", result |-> NoProgram]
    /\ LLMUnused
    /\ InterpretUnused
    /\ InitLocals

\* the example lists given to the string synthesizer
StringExampleLists ==
    { <<>>,
      << <<<<"a">>, <<"a">>>> >>,
      << <<<<"a">>, <<"a", "a">>>> >>,
      << <<<<"a">>, <<"A">>>> >>,
      << <<<<"a", "b">>, <<"a">>>> >>,
      << <<<<"a", " ", "b">>, <<"a", "-", "b">>>> >>,
      << <<<<"a">>, <<"z">>>> >>,
      << <<<<"A", "b">>, <<"A">>>> >>,
      << <<<<"a", "\\">>, <<"a", "/">>>> >> }

\* StringSynthesizer.synthesize (lines 315-317): accumulating mode
InitString ==
    /\ dsl = "string"
    /\ examples \in StringExampleLists
    /\ max_iterations \in 0..MaxIter
    /\ accumulate_programs = TRUE
    /\ okSigs = {}
    /\ mockTerminals = <<>>
    /\ ncalls = 1
    /\ prev = [pc |-> "none", result |-> NoProgram]
    /\ LLMUnused
    /\ InterpretUnused
    /\ InitLocals

(***************************************************************************)
(* The steps of synthesize.                                                *)
(***************************************************************************)
\* lines 72-74 without the guard of line 72
CheckExamplesUnguarded ==
    /\ pc = "call"
    /\ test_inputs' = ExtractTestInputs(examples)
    /\ called' = called \cup {"extract_test_inputs"}
    /\ pc' = "terminals"
    /\ UNCHANGED <<config, offered, current_programs, cache, unique_programs, all_programs,
                   grow_base, grown_programs, new_unique_programs, iteration,
                   result, error, rounds>>

\* lines 72-74
CheckExamples ==
    /\ pc = "call"
    /\ IF examples = <<>>
       THEN /\ error' = EmptyExamples
            /\ pc' = "raised"
            /\ UNCHANGED <<test_inputs, called>>
       ELSE /\ test_inputs' = ExtractTestInputs(examples)
            /\ called' = called \cup {"extract_test_inputs"}
            /\ pc' = "terminals"
            /\ UNCHANGED error
    /\ UNCHANGED <<config, offered, current_programs, cache, unique_programs, all_programs,
                   grow_base, grown_programs, new_unique_programs, iteration,
                   result, rounds>>

\* line 78
GenerateTerminals ==
    /\ pc = "terminals"
    /\ \E terminals \in TerminalOutcomes(examples) :
          /\ current_programs' = terminals
          /\ offered' = offered + Len(terminals)
    /\ called' = called \cup {"generate_terminals"}
    /\ pc' = "dedup0"
    /\ UNCHANGED <<config, grown_programs, test_inputs, cache, unique_programs,
                   all_programs, grow_base, new_unique_programs, iteration,
                   result, error, rounds>>

\* line 80
DedupTerminals ==
    /\ pc = "dedup0"
    /\ LET r == eliminate_equivalents(current_programs, test_inputs, cache)
       IN  /\ unique_programs' = r.yielded
           /\ cache' = r.cache
           /\ rounds' = <<r.yielded>>
    /\ called' = called \cup {"eliminate_equivalents"}
    /\ pc' = "check0"
    /\ UNCHANGED <<config, offered, current_programs, test_inputs, all_programs, grow_base,
                   grown_programs, new_unique_programs, iteration, result,
                   error>>

\* lines 81-87 without the scan of lines 81-83
CheckTerminalsSkipped ==
    /\ pc = "check0"
    /\ all_programs' = unique_programs
    /\ iteration' = 1
    /\ pc' = LoopTarget(1)
    /\ UNCHANGED <<config, offered, current_programs, test_inputs, cache,
                   unique_programs, grow_base, grown_programs,
                   new_unique_programs, result, error, called, rounds>>

\* lines 81-87: test the terminals, then enter the loop
CheckTerminals ==
    /\ pc = "check0"
    /\ LET i == FirstCorrect(unique_programs, examples)
       IN  IF i # 0
           THEN /\ result' = unique_programs[i]
                /\ pc' = "returned"
                /\ UNCHANGED <<all_programs, iteration>>
           ELSE /\ all_programs' = unique_programs
                /\ iteration' = 1
                /\ pc' = LoopTarget(1)
                /\ UNCHANGED result
    /\ called' = IF unique_programs = <<>> THEN called
                 ELSE called \cup {"is_correct"}
    /\ UNCHANGED <<config, offered, current_programs, test_inputs, cache, unique_programs,
                   grow_base, grown_programs, new_unique_programs, error,
                   rounds>>

\* line 89
GrowBase == IF accumulate_programs THEN all_programs ELSE unique_programs

\* lines 89-90
Grow ==
    /\ pc = "grow"
    /\ grow_base' = GrowBase
    /\ \E grown \in GrowOutcomes(GrowBase, examples) :
          /\ grown_programs' = grown
          /\ offered' = offered + Len(grown)
    /\ called' = called \cup {"grow"}
    /\ pc' = "dedup"
    /\ UNCHANGED <<config, current_programs, test_inputs, cache,
                   unique_programs, all_programs, new_unique_programs,
                   iteration, result, error, rounds>>

\* lines 93-95 without the break of lines 94-95
DedupGrownNoBreak ==
    /\ pc = "dedup"
    /\ LET r == eliminate_equivalents(grown_programs, test_inputs, cache)
       IN  /\ new_unique_programs' = r.yielded
           /\ cache' = r.cache
           /\ rounds' = Append(rounds, r.yielded)
           /\ pc' = "check"
    /\ UNCHANGED <<config, offered, current_programs, test_inputs, unique_programs, all_programs,
                   grow_base, grown_programs, iteration, result, error,
                   called>>

\* lines 93-95
DedupGrown ==
    /\ pc = "dedup"
    /\ LET r == eliminate_equivalents(grown_programs, test_inputs, cache)
       IN  /\ new_unique_programs' = r.yielded
           /\ cache' = r.cache
           /\ rounds' = Append(rounds, r.yielded)
           /\ pc' = IF r.yielded = <<>> THEN "raise" ELSE "check"
    /\ UNCHANGED <<config, offered, current_programs, test_inputs, unique_programs, all_programs,
                   grow_base, grown_programs, iteration, result, error,
                   called>>

\* lines 98-108 without the second deduplication of line 106
CheckGrownWithoutSecondDedup ==
    /\ pc = "check"
    /\ LET i == FirstCorrect(new_unique_programs, examples)
       IN  IF i # 0
           THEN /\ result' = new_unique_programs[i]
                /\ pc' = "returned"
                /\ UNCHANGED <<all_programs, unique_programs, iteration>>
           ELSE /\ IF accumulate_programs
                   THEN /\ all_programs' = all_programs \o new_unique_programs
                        /\ UNCHANGED unique_programs
                   ELSE /\ unique_programs' = new_unique_programs
                        /\ UNCHANGED all_programs
                /\ iteration' = iteration + 1
                /\ pc' = LoopTarget(iteration + 1)
                /\ UNCHANGED result
    /\ called' = called \cup {"is_correct"}
    /\ UNCHANGED <<config, offered, current_programs, test_inputs, cache,
                   grow_base, grown_programs, new_unique_programs, error,
                   rounds>>

\* lines 98-108: test the new programs, then update the program set
CheckGrown ==
    /\ pc = "check"
    /\ LET i == FirstCorrect(new_unique_programs, examples)
       IN  IF i # 0
           THEN /\ result' = new_unique_programs[i]
                /\ pc' = "returned"
                /\ UNCHANGED <<all_programs, unique_programs, cache, iteration>>
           ELSE /\ IF accumulate_programs
                   THEN LET r == eliminate_equivalents(
                                     all_programs \o new_unique_programs,
                                     test_inputs, cache)
                        IN  /\ all_programs' = r.yielded
                            /\ cache' = r.cache
                            /\ UNCHANGED unique_programs
                   ELSE /\ unique_programs' = new_unique_programs
                        /\ UNCHANGED <<all_programs, cache>>
                /\ iteration' = iteration + 1
                /\ pc' = LoopTarget(iteration + 1)
                /\ UNCHANGED result
    /\ called' = called \cup {"is_correct"}
    /\ UNCHANGED <<config, offered, current_programs, test_inputs, grow_base, grown_programs,
                   new_unique_programs, error, rounds>>

\* line 110 replaced by a plain return
RaiseExhaustedReturnsNothing ==
    /\ pc = "raise"
    /\ pc' = "returned"
    /\ UNCHANGED <<config, offered, current_programs, test_inputs, cache,
                   unique_programs, all_programs, grow_base, grown_programs,
                   new_unique_programs, iteration, result, error, called,
                   rounds>>

\* line 110
RaiseExhausted ==
    /\ pc = "raise"
    /\ error' = ExhaustedBudget
    /\ pc' = "raised"
    /\ UNCHANGED <<config, offered, current_programs, test_inputs, cache, unique_programs,
                   all_programs, grow_base, grown_programs,
                   new_unique_programs, iteration, result, called, rounds>>

Next ==
    \/ CheckExamples
    \/ GenerateTerminals
    \/ DedupTerminals
    \/ CheckTerminals
    \/ Grow
    \/ DedupGrown
    \/ CheckGrown
    \/ RaiseExhausted

Spec == Init /\ [][Next]_vars

\* the interpreter keeps executing a call that has a statement left to run
SpecFair == Spec /\ WF_vars(Next)

\* the examples of create_union_example (test_synthesize.py lines 64-69)
UnionExample ==
    << <<1, 1, TRUE>>, <<3, 3, TRUE>>, <<4, 4, FALSE>> >>

\* the example lists given to the shape synthesizer
ShapeExampleLists ==
    { <<>>,
      UnionExample,
      << <<0, 0, TRUE>>, <<1, 1, TRUE>>, <<2, 2, FALSE>> >>,
      << <<0, 0, TRUE>>, <<2, 0, TRUE>>, <<1, 0, FALSE>> >>,
      << <<0, 0, TRUE>>, <<2, 2, TRUE>>, <<1, 1, FALSE>> >>,
      << <<1, 1, TRUE>>, <<1, 1, FALSE>> >> }

\* ShapeSynthesizer inherits synthesize: accumulate_programs defaults to False
InitShape ==
    /\ dsl = "shape"
    /\ examples \in ShapeExampleLists
    /\ max_iterations \in 0..MaxIter
    /\ accumulate_programs = FALSE
    /\ okSigs = {}
    /\ mockTerminals = <<>>
    /\ ncalls = 1
    /\ prev = [pc |-> "none", result |-> NoProgram]
    /\ LLMUnused
    /\ InterpretUnused
    /\ InitLocals

SpecShape == InitShape /\ [][Next]_vars

\* the shapes of the program lists given to a single grow call: the two
\* terminals of test_shape_synthesizer.py and composites over them
GrowShapes ==
    LET rect == Rectangle(Coordinate(0, 0), Coordinate(2, 2))
        circle == Circle(Coordinate(0, 0), 1)
    IN  {rect, circle, Mirror(rect), Union(rect, rect),
         Subtraction(rect, circle)}

\* a single call grow(program_list, examples=[]), as in the tests
InitGrow ==
    /\ dsl = "shape"
    /\ examples = <<>>
    /\ max_iterations = 0
    /\ accumulate_programs = FALSE
    /\ okSigs = {}
    /\ mockTerminals = <<>>
    /\ ncalls = 1
    /\ prev = [pc |-> "none", result |-> NoProgram]
    /\ LLMUnused
    /\ InterpretUnused
    /\ pc = "grow call"
    /\ grow_base \in SeqsUpTo(GrowShapes, MaxBase)
    /\ test_inputs = <<>>
    /\ cache = <<>>
    /\ unique_programs = <<>>
    /\ all_programs = <<>>
    /\ current_programs = <<>>
    /\ grown_programs = <<>>
    /\ new_unique_programs = <<>>
    /\ iteration = 0
    /\ result = NoProgram
    /\ error = NoError
    /\ called = {}
    /\ rounds = <<>>
    /\ offered = 0

\* lines 60-90: the call returns
GrowCall ==
    /\ pc = "grow call"
    /\ \E order \in SetOrders :
          grown_programs' = shape_grow(grow_base, order)
    /\ called' = called \cup {"grow"}
    /\ pc' = "grown"
    /\ UNCHANGED <<config, offered, current_programs, test_inputs, cache,
                   unique_programs, all_programs, grow_base,
                   new_unique_programs, iteration, result, error, rounds>>

SpecGrow == InitGrow /\ [][GrowCall]_vars

\* the example strings of a single generate_terminals call: a letter, a
\* separator that is in common_literals, one that is also a pattern of line
\* 69, and a digit; and the two outputs tested by lines 74-77
TerminalChars == {"a", " ", "-", "0"}
TerminalInputs == SeqsUpTo(TerminalChars, MaxStr)
TerminalOutputs ==
    TerminalInputs \cup {<<"1", ".", "0", "0">>, <<"*", "*", "*">>}

TerminalExampleLists ==
    {<<>>}
    \cup {<<<<inp, out>>>> : inp \in TerminalInputs, out \in TerminalOutputs}
    \cup {<< <<inp, inp>>, <<other, other>> >> :
             inp \in TerminalInputs, other \in TerminalInputs}

\* a single call StringSynthesizer().generate_terminals(examples)
InitTerminals ==
    /\ dsl = "string"
    /\ examples \in TerminalExampleLists
    /\ max_iterations = 0
    /\ accumulate_programs = TRUE
    /\ okSigs = {}
    /\ mockTerminals = <<>>
    /\ ncalls = 1
    /\ prev = [pc |-> "none", result |-> NoProgram]
    /\ LLMUnused
    /\ InterpretUnused
    /\ pc = "terminals call"
    /\ test_inputs = <<>>
    /\ cache = <<>>
    /\ unique_programs = <<>>
    /\ all_programs = <<>>
    /\ grow_base = <<>>
    /\ current_programs = <<>>
    /\ grown_programs = <<>>
    /\ new_unique_programs = <<>>
    /\ iteration = 0
    /\ result = NoProgram
    /\ error = NoError
    /\ called = {}
    /\ rounds = <<>>
    /\ offered = 0

\* lines 52-94: the call returns
GenerateTerminalsCall ==
    /\ pc = "terminals call"
    /\ \E order \in SetOrders :
          current_programs' = generate_terminals(examples, order)
    /\ called' = called \cup {"generate_terminals"}
    /\ pc' = "terminals returned"
    /\ UNCHANGED <<config, offered, test_inputs, cache, unique_programs,
                   all_programs, grow_base, grown_programs,
                   new_unique_programs, iteration, result, error, rounds>>

SpecTerminals == InitTerminals /\ [][GenerateTerminalsCall]_vars

\* LLMStringSynthesizer(api_key, logger), before its first synthesize call
InitLLM ==
    /\ dsl = "llm"
    /\ examples \in LLMExampleLists
    /\ max_iterations = 5
    /\ accumulate_programs = FALSE
    /\ okSigs = {}
    /\ mockTerminals = <<>>
    /\ ncalls = 1
    /\ prev = [pc |-> "none", result |-> NoProgram]
    /\ logger \in {NoLogger, NewLogger}
    /\ log_file = <<>>
    /\ response = NoResponse
    /\ llm_program = NoProgram
    /\ InterpretUnused
    /\ pc = "llm call"
    /\ test_inputs = <<>>
    /\ cache = <<>>
    /\ unique_programs = <<>>
    /\ all_programs = <<>>
    /\ grow_base = <<>>
    /\ current_programs = <<>>
    /\ grown_programs = <<>>
    /\ new_unique_programs = <<>>
    /\ iteration = 0
    /\ result = NoProgram
    /\ error = NoError
    /\ called = {}
    /\ rounds = <<>>
    /\ offered = 0

\* what no step of LLMStringSynthesizer.synthesize touches
llm_frame ==
    <<dsl, examples, max_iterations, accumulate_programs, okSigs,
      mockTerminals, ncalls, prev, test_inputs, cache, unique_programs,
      all_programs, grow_base, current_programs, grown_programs,
      new_unique_programs, iteration, rounds, offered, interp>>

\* lines 76-83
LLMCheckExamples ==
    /\ pc = "llm call"
    /\ IF examples = <<>>
       THEN /\ error' = LLMValueError
            /\ pc' = "raised"
            /\ UNCHANGED logger
       ELSE LET prompt == generate_prompt(examples)
                Logged(lg) == log_prompt(lg, prompt, examples)
            IN  /\ logger' = WithLogger(Logged)
                /\ pc' = "llm generate"
                /\ UNCHANGED error
    /\ UNCHANGED <<llm_frame, log_file, response, llm_program, result, called>>

\* lines 85-90: the request, and reading the text of the response
LLMGenerateContent ==
    /\ pc = "llm generate"
    /\ \E outcome \in ServiceOutcomes :
          IF outcome = ServiceRaises
          THEN /\ pc' = "llm except"
               /\ UNCHANGED <<response, logger>>
          ELSE LET Logged(lg) == log_response(lg, outcome)
               IN  /\ response' = outcome
                   /\ logger' = WithLogger(Logged)
                   /\ pc' = IF outcome.blocked THEN "llm except"
                            ELSE "llm extract"
    /\ called' = called \cup {"generate_content"}
    /\ UNCHANGED <<llm_frame, log_file, llm_program, result, error>>

\* lines 93-98
LLMExtractProgram ==
    /\ pc = "llm extract"
    /\ LET extracted == extract_program(response.lines)
           Logged(lg) == log_program(lg, extracted.val)
       IN  IF extracted.err
           THEN /\ pc' = "llm except"
                /\ UNCHANGED <<llm_program, logger, log_file>>
           ELSE /\ llm_program' = extracted.val
                /\ logger' = WithLogger(Logged)
                /\ log_file' = IF logger = NoLogger THEN log_file
                               ELSE save(Logged(logger), log_file)
                /\ pc' = "llm validate"
    /\ UNCHANGED <<llm_frame, response, result, error, called>>

\* lines 101-104
LLMValidate ==
    /\ pc = "llm validate"
    /\ IF validate_program(llm_program, examples)
       THEN /\ result' = llm_program
            /\ pc' = "returned"
       ELSE /\ pc' = "llm except"
            /\ UNCHANGED result
    /\ UNCHANGED <<llm_frame, logger, log_file, response, llm_program, error,
                   called>>

\* lines 106-111
LLMExcept ==
    /\ pc = "llm except"
    /\ LET Logged(lg) == log_error(lg, "error")
       IN  /\ logger' = WithLogger(Logged)
           /\ log_file' = IF logger = NoLogger THEN log_file
                          ELSE save(Logged(logger), log_file)
    /\ error' = LLMValueError
    /\ pc' = "raised"
    /\ UNCHANGED <<llm_frame, response, llm_program, result, called>>

\* the same synthesizer object, with the same logger, is called again
LLMCallAgain ==
    /\ pc \in {"returned", "raised"}
    /\ ncalls < MaxCalls
    /\ ncalls' = ncalls + 1
    /\ prev' = [pc |-> pc, result |-> result]
    /\ pc' = "llm call"
    /\ response' = NoResponse
    /\ llm_program' = NoProgram
    /\ result' = NoProgram
    /\ error' = NoError
    /\ called' = {}
    /\ UNCHANGED <<dsl, examples, max_iterations, accumulate_programs,
                   okSigs, mockTerminals, test_inputs, cache,
                   unique_programs, all_programs, grow_base,
                   current_programs, grown_programs, new_unique_programs,
                   iteration, rounds, offered, logger, log_file, interp>>

NextLLM ==
    \/ LLMCheckExamples
    \/ LLMGenerateContent
    \/ LLMExtractProgram
    \/ LLMValidate
    \/ LLMExcept
    \/ LLMCallAgain

SpecLLM == InitLLM /\ [][NextLLM]_vars

\* the Substring and SplitThenTake expressions interpreted on their own:
\* the source is the input string, the delimiter a literal
IndexedExpressions ==
    {Substring(InputString, start_idx, end_idx) :
        start_idx \in (-MaxIndex)..MaxIndex, end_idx \in (-MaxIndex)..MaxIndex}
    \cup {SplitThenTake(InputString, StringLiteral(delim), index) :
            delim \in SeqsUpTo(TerminalChars, 1),
            index \in (-MaxIndex)..MaxIndex}

\* a single call e.interpret(input_string)
InitInterpret ==
    /\ dsl = "string"
    /\ examples = <<>>
    /\ max_iterations = 0
    /\ accumulate_programs = TRUE
    /\ okSigs = {}
    /\ mockTerminals = <<>>
    /\ ncalls = 1
    /\ prev = [pc |-> "none", result |-> NoProgram]
    /\ LLMUnused
    /\ interpret_call \in
          {[e |-> e, input_string |-> input_string] :
              e \in IndexedExpressions, input_string \in TerminalInputs}
    /\ interpret_outcome = NoCall
    /\ pc = "interpret call"
    /\ test_inputs = <<>>
    /\ cache = <<>>
    /\ unique_programs = <<>>
    /\ all_programs = <<>>
    /\ grow_base = <<>>
    /\ current_programs = <<>>
    /\ grown_programs = <<>>
    /\ new_unique_programs = <<>>
    /\ iteration = 0
    /\ result = NoProgram
    /\ error = NoError
    /\ called = {}
    /\ rounds = <<>>
    /\ offered = 0

\* strings.py lines 103-108 (Substring), 233-240 (SplitThenTake)
InterpretCall ==
    /\ pc = "interpret call"
    /\ interpret_outcome' =
          interpret(interpret_call.e, interpret_call.input_string)
    /\ pc' = "interpreted"
    /\ UNCHANGED <<dsl, examples, max_iterations, accumulate_programs, okSigs,
                   mockTerminals, ncalls, prev, llm, interpret_call,
                   test_inputs, cache, unique_programs, all_programs,
                   grow_base, current_programs, grown_programs,
                   new_unique_programs, iteration, result, error, called,
                   rounds, offered>>

SpecInterpret == InitInterpret /\ [][InterpretCall]_vars

\* a finished call is followed by another call with the same arguments
CallAgain ==
    /\ pc \in {"returned", "raised"}
    /\ ncalls < MaxCalls
    /\ ncalls' = ncalls + 1
    /\ prev' = [pc |-> pc, result |-> result]
    /\ pc' = "call"
    /\ test_inputs' = <<>>
    /\ cache' = <<>>
    /\ unique_programs' = <<>>
    /\ all_programs' = <<>>
    /\ grow_base' = <<>>
    /\ current_programs' = <<>>
    /\ grown_programs' = <<>>
    /\ new_unique_programs' = <<>>
    /\ iteration' = 0
    /\ result' = NoProgram
    /\ error' = NoError
    /\ called' = {}
    /\ rounds' = <<>>
    /\ offered' = 0
    /\ UNCHANGED <<dsl, examples, max_iterations, accumulate_programs,
                   okSigs, mockTerminals, llm, interp>>

NextString ==
    \/ Next
    \/ CallAgain

SpecString == InitString /\ [][NextString]_vars

(***************************************************************************)
(* Properties of the driver.                                               *)
(***************************************************************************)
Terminated == pc \in {"returned", "raised"}

\* the signature of a program on the probe set of the running call
SigOf(program) == ComputeSignature(program, test_inputs)

\* every program that survived deduplication in some round so far
Survivors == UNION {Range(rounds[k]) : k \in DOMAIN rounds}

\* C1: a program returned by synthesize (either mode, any round) satisfies
\* is_correct on the examples of the call.
C1_ReturnedIsCorrect ==
    pc = "returned" => IsCorrect(result, examples)

\* C1 witness: a program is returned from a growth round in accumulating mode.
C1_Witness ==
    pc = "returned" /\ iteration >= 1 /\ accumulate_programs

\* C2: when none of the programs tested in round 0 and the growth rounds is
\* correct, a finished call (of non-empty examples) has raised the
\* "No program found" error and has returned no program.
C2_ExhaustedBudget ==
    (/\ Terminated
     /\ examples # <<>>
     /\ \A p \in Survivors : ~IsCorrect(p, examples))
    => (pc = "raised" /\ error = ExhaustedBudget /\ result = NoProgram)

\* C2 witness: the budget ran out after every round tested some program.
C2_Witness ==
    /\ pc = "raised"
    /\ error = ExhaustedBudget
    /\ max_iterations >= 1
    /\ Len(rounds) = max_iterations + 1
    /\ \A k \in DOMAIN rounds : rounds[k] # <<>>

\* C3: with an empty examples list the call fails with "No examples provided"
\* and none of extract_test_inputs, generate_terminals, eliminate_equivalents,
\* is_correct and grow has been called.
C3_EmptyExamples ==
    examples = <<>> =>
        /\ called = {}
        /\ pc \in {"call", "raised"}
        /\ pc = "raised" => error = EmptyExamples
        /\ result = NoProgram

\* C3 witness: a call with no examples has failed.
C3_Witness ==
    examples = <<>> /\ pc = "raised"

\* C4: within one call, two distinct programs that survived deduplication,
\* in the same round or in different rounds, have different signatures.
C4_DistinctSignaturesAcrossRounds ==
    \A p \in Survivors : \A q \in Survivors :
        p # q => SigOf(p).val # SigOf(q).val

\* the list given to the latest eliminate_equivalents call of lines 80 / 93
DedupInput == IF pc = "check0" THEN current_programs ELSE grown_programs

\* what that call yielded
DedupOutput == IF pc = "check0" THEN unique_programs ELSE new_unique_programs

ValidSigs(programs) ==
    {SigOf(programs[i]).val :
        i \in {j \in 1..Len(programs) : SigOf(programs[j]).kind = "ok"}}

\* C5: one eliminate_equivalents call yields exactly one program per distinct
\* non-failing signature of its list; offering one more program equivalent to
\* a listed one leaves the number yielded unchanged; an empty list yields
\* nothing.
C5_OnePerSignature ==
    pc \in {"check0", "check"} =>
        /\ \A i \in 1..Len(DedupOutput) : \A j \in 1..Len(DedupOutput) :
              i # j => SigOf(DedupOutput[i]).val # SigOf(DedupOutput[j]).val
        /\ Range(DedupOutput) \subseteq Range(DedupInput)
        /\ ValidSigs(DedupOutput) = ValidSigs(DedupInput)
        /\ Len(DedupOutput) = Cardinality(ValidSigs(DedupInput))
        /\ \A q \in MockUniverse :
              SigOf(q).val \in ValidSigs(DedupInput) =>
                 Len(eliminate_equivalents(Append(DedupInput, q),
                                           test_inputs, cache).yielded)
                    = Len(DedupOutput)
        /\ DedupInput = <<>> => DedupOutput = <<>>

\* C5 witness: a list holding two equivalent programs and an independent one
\* has been deduplicated.
C5_Witness ==
    /\ pc = "check"
    /\ Len(DedupInput) = 3
    /\ Len(DedupOutput) = 2
    /\ \A i \in 1..3 : SigOf(DedupInput[i]).kind = "ok"

\* C6: a program whose signature computation raises or returns None is never
\* yielded by eliminate_equivalents, never in the growth base, never returned.
C6_FailedSignatureNeverKept ==
    /\ \A p \in Survivors \cup Range(unique_programs)
                 \cup Range(new_unique_programs) \cup Range(all_programs)
                 \cup Range(grow_base) : SigOf(p).kind = "ok"
    /\ pc = "returned" => SigOf(result).kind = "ok"

\* C6 witness: a call returned a program after its lists offered a program
\* whose signature raises and one whose signature is None.
C6_Witness ==
    /\ pc = "returned"
    /\ \E p \in Range(current_programs) \cup Range(grown_programs) :
          SigOf(p).kind = "raise"
    /\ \E p \in Range(current_programs) \cup Range(grown_programs) :
          SigOf(p).kind = "none"

RECURSIVE Depth(_)
\* the depth of an expression tree: 0 for InputString and StringLiteral
Depth(e) ==
    LET Max(a, b) == IF a >= b THEN a ELSE b
    IN  CASE e.op \in {"InputString", "StringLiteral"} -> 0
          [] e.op = "Concatenate" -> 1 + Max(Depth(e.left), Depth(e.right))
          [] e.op = "Replace" ->
                1 + Max(Depth(e.expr),
                        Max(Depth(e.old_sub), Depth(e.new_sub)))
          [] e.op = "SplitThenTake" ->
                1 + Max(Depth(e.expr), Depth(e.delimiter))
          [] OTHER -> 1 + Depth(e.expr)

\* the expressions of depth at most 1 that grow builds from the input alone
ShallowExpressions == {InputString} \cup Range(Variants(InputString))

\* C7: a second synthesize call with the same examples and max_iterations
\* ends as the first one did: it returns the same expression, or both fail,
\* whatever order the sets of generate_terminals and grow are visited in.
C7_SameResultOnSecondCall ==
    (ncalls >= 2 /\ Terminated) => (pc = prev.pc /\ result = prev.result)

\* C8: the expression returned by the string synthesizer has the smallest
\* depth at which an expression satisfies all examples: no expression of
\* smaller depth is correct.
C8_DepthMinimal ==
    (dsl = "string" /\ pc = "returned") =>
        \A e \in ShallowExpressions :
            Depth(e) < Depth(result) => ~IsCorrect(e, examples)

\* C9: when some terminal is correct, synthesize returns the first correct
\* terminal of generate_terminals' list at round 0 and never calls grow.
C9_FirstCorrectTerminal ==
    (/\ pc \notin {"call", "terminals"}
     /\ \E i \in 1..Len(current_programs) :
           IsCorrect(current_programs[i], examples))
    => /\ "grow" \notin called
       /\ iteration = 0
       /\ pc # "raised"
       /\ pc = "returned" =>
             \E i \in 1..Len(current_programs) :
                /\ result = current_programs[i]
                /\ IsCorrect(current_programs[i], examples)
                /\ \A j \in 1..(i - 1) :
                      ~IsCorrect(current_programs[j], examples)

\* C9 witness: the returned terminal comes after an incorrect one and before
\* another correct one.
C9_Witness ==
    /\ pc = "returned"
    /\ Len(current_programs) >= 3
    /\ ~IsCorrect(current_programs[1], examples)
    /\ result = current_programs[2]
    /\ IsCorrect(current_programs[3], examples)
    /\ current_programs[3] # result

\* C10: the list passed to grow in round k is the survivors of round k-1
\* when accumulation is off and the union of the survivors of rounds 0..k-1
\* when it is on.
C10_GrowBase ==
    pc = "dedup" =>
        IF accumulate_programs
        THEN Range(grow_base) = Survivors
        ELSE grow_base = rounds[Len(rounds)]

\* C11: once the deduplicated programs of a growth round are empty the call
\* fails with the "No program found" error at once: the loop is left in that
\* round, nothing is returned, no further round is started.
C11_SaturationStops ==
    (Len(rounds) >= 2 /\ rounds[Len(rounds)] = <<>>) =>
        /\ pc \in {"raise", "raised"}
        /\ pc = "raised" => error = ExhaustedBudget
        /\ result = NoProgram
        /\ iteration = Len(rounds) - 1

\* C11 witness: a call failed on an empty first growth round although its
\* budget allowed a second one.
C11_Witness ==
    /\ pc = "raised"
    /\ Len(rounds) = 2
    /\ rounds[1] # <<>>
    /\ rounds[2] = <<>>
    /\ grown_programs # <<>>
    /\ max_iterations >= 2

\* the number of grow calls made so far by the running call
GrowCalls ==
    IF pc = "dedup" THEN Len(rounds)
    ELSE IF rounds = <<>> THEN 0 ELSE Len(rounds) - 1

\* C12: every synthesize call terminates, returning a program or raising,
\* after at most max_iterations grow calls; with max_iterations = 0 grow is
\* never called.
C12_Terminates ==
    /\ <>Terminated
    /\ [](GrowCalls <= max_iterations)
    /\ [](max_iterations = 0 => "grow" \notin called)

\* C12 witness: a call ended after using its whole budget of grow calls.
C12_Witness ==
    /\ Terminated
    /\ max_iterations >= 1
    /\ GrowCalls = max_iterations
    /\ "grow" \in called


\* C13 (first half): Union(a, a) and Intersection(a, a) have the signature of
\* a, for every a of the growth base.
IdempotentSameSignature ==
    \A i \in DOMAIN grow_base :
        /\ SigOf(Union(grow_base[i], grow_base[i])) = SigOf(grow_base[i])
        /\ SigOf(Intersection(grow_base[i], grow_base[i])) = SigOf(grow_base[i])

\* C13: in the shape synthesizer, for every a of the growth base, Union(a, a)
\* and Intersection(a, a) have the signature of a and are pruned by the
\* deduplication of the round: neither survives in place of a.
C13_IdempotentPruned ==
    (dsl = "shape" /\ pc = "check") =>
        /\ IdempotentSameSignature
        /\ \A i \in DOMAIN grow_base :
              /\ Union(grow_base[i], grow_base[i])
                    \notin Range(new_unique_programs)
              /\ Intersection(grow_base[i], grow_base[i])
                    \notin Range(new_unique_programs)


\* C14: grow(B) returns, as a set, exactly B, Mirror(p) for every p of B, and
\* Union, Intersection and Subtraction of every ordered pair of B (p = q
\* included), and nothing else; for an empty B it returns the empty list.
C14_GrowContents ==
    pc = "grown" =>
        /\ Range(grown_programs) =
              Range(grow_base)
              \cup {Mirror(q) : q \in Range(grow_base)}
              \cup {Union(q[1], q[2]) : q \in Range(grow_base) \X Range(grow_base)}
              \cup {Intersection(q[1], q[2]) : q \in Range(grow_base) \X Range(grow_base)}
              \cup {Subtraction(q[1], q[2]) : q \in Range(grow_base) \X Range(grow_base)}
        /\ grow_base = <<>> => grown_programs = <<>>

\* C14 witness: a call on two different shapes has returned.
C14_Witness ==
    /\ pc = "grown"
    /\ Len(grow_base) = 2
    /\ grow_base[1] # grow_base[2]
    /\ Union(grow_base[2], grow_base[1]) \in Range(grown_programs)

\* whether no two programs of the list are structurally equal
PairwiseDistinct(programs) == Cardinality(Range(programs)) = Len(programs)

\* C15: for n pairwise structurally distinct shapes, terminals or composites,
\* grow returns exactly n + n + 3n^2 programs.
C15_GrowCount ==
    (pc = "grown" /\ PairwiseDistinct(grow_base)) =>
        Len(grown_programs) =
            Len(grow_base) + Len(grow_base)
            + 3 * Len(grow_base) * Len(grow_base)

\* C16: grow returns no two structurally equal programs, and the result for a
\* list with repeated elements has as many programs as the result for that
\* list with the repetitions removed.
C16_NoDuplicates ==
    pc = "grown" =>
        /\ PairwiseDistinct(grown_programs)
        /\ \A o1 \in SetOrders, o2 \in SetOrders :
              Len(shape_grow(IterationOrder(Distinct(grow_base), o1), o2))
                 = Len(grown_programs)

\* C16 witness: a call on a list with a repeated element has returned.
C16_Witness ==
    /\ pc = "grown"
    /\ Len(grow_base) = 3
    /\ grow_base[1] = grow_base[3]
    /\ grow_base[1] # grow_base[2]
    /\ Len(grown_programs) > 3

\* C17: grow emits its programs in a fixed order: B in its input order, then
\* the Mirrors, then Union, Intersection, Subtraction for each ordered pair
\* (structural repetitions appearing once, at their first position).
C17_EmissionOrder ==
    pc = "grown" => grown_programs = Distinct(ShapeAdditions(grow_base))


\* the list offered by the eliminate_equivalents call the next step makes
\* (lines 80, 93, 106), <<>> when the next step makes none
NextDedupInput ==
    CASE pc = "dedup0" -> current_programs
      [] pc = "dedup" -> grown_programs
      [] pc = "check" /\ accumulate_programs
            /\ FirstCorrect(new_unique_programs, examples) = 0 ->
            all_programs \o new_unique_programs
      [] OTHER -> <<>>

\* what the cache holds for a program after a call that offered it
CacheEntry(program) ==
    IF SigOf(program).kind = "raise" THEN SigNone ELSE SigOf(program)

\* C18: after a fully consumed eliminate_equivalents call the cache holds one
\* entry for every program of the offered list, kept or not, mapping it to
\* its signature, or to None when the computation failed; the entries of
\* other programs are unchanged; an empty list leaves the cache unchanged.
C18_CacheFrame ==
    [][ /\ DOMAIN cache' = DOMAIN cache \cup Range(NextDedupInput)
        /\ \A program \in Range(NextDedupInput) :
              cache'[program] = CacheEntry(program)
        /\ \A program \in DOMAIN cache \ Range(NextDedupInput) :
              cache'[program] = cache[program]
        /\ NextDedupInput = <<>> => cache' = cache ]_vars

\* C18 witness: the call of a growth round was offered a failing program and a
\* program it did not keep, and the cache still holds a terminal that the
\* round did not offer.
C18_Witness ==
    /\ pc = "check"
    /\ \E program \in Range(grown_programs) :
          SigOf(program).kind = "raise" /\ cache[program] = SigNone
    /\ \E program \in Range(grown_programs) \ Range(new_unique_programs) :
          cache[program].kind = "ok"
    /\ DOMAIN cache \ Range(grown_programs) # {}


\* C19: StringSynthesizer.generate_terminals returns a StringLiteral for every
\* single character that appears in an input or an output of the examples,
\* letters and other alphanumerics included.
C19_EveryCharacterLiteral ==
    pc = "terminals returned" =>
        \A i \in DOMAIN examples :
            \A c \in Range(examples[i][1] \o examples[i][2]) :
                StringLiteral(<<c>>) \in Range(current_programs)

\* C20: the list returned by StringSynthesizer.generate_terminals contains
\* InputString, no StringLiteral of the empty string, and no two
\* StringLiterals of the same value.
C20_TerminalList ==
    pc = "terminals returned" =>
        /\ InputString \in Range(current_programs)
        /\ StringLiteral(<<>>) \notin Range(current_programs)
        /\ \A i \in DOMAIN current_programs, j \in DOMAIN current_programs :
              (/\ i # j
               /\ current_programs[i].op = "StringLiteral"
               /\ current_programs[j].op = "StringLiteral")
                  => current_programs[i].value # current_programs[j].value

\* C20 witness: terminals were generated for an example whose space and hyphen
\* are added to needed_literals more than once.
C20_Witness ==
    /\ pc = "terminals returned"
    /\ \E i \in DOMAIN examples : " " \in Range(examples[i][1])
    /\ StringLiteral(<<" ">>) \in Range(current_programs)
    /\ StringLiteral(<<"-">>) \in Range(current_programs)


\* the six programs the specification emits for one base program
CaseAndRepeatVariants(b) ==
    {ToUpper(b), ToLower(b), Strip(b), Capitalize(b), Repeat(b, 2), Repeat(b, 3)}

\* C21: for every program b of the list given to StringSynthesizer.grow, the
\* returned list contains ToUpper(b), ToLower(b), Strip(b), Capitalize(b),
\* Repeat(b, 2) and Repeat(b, 3), whatever the list and the examples.
C21_VariantsOfEveryBase ==
    (dsl = "string" /\ pc = "dedup") =>
        \A i \in DOMAIN grow_base :
            CaseAndRepeatVariants(grow_base[i]) \subseteq Range(grown_programs)

\* the operands of the Concatenate programs of a list
ConcatenatePairs(programs) ==
    {<<programs[i].left, programs[i].right>> :
        i \in {j \in DOMAIN programs : programs[j].op = "Concatenate"}}

\* C22: StringSynthesizer.grow emits Concatenate(a, b) for every ordered pair
\* of the terminals generate_terminals produced for the same examples, and
\* with no operand that is not one of those terminals.
C22_ConcatenateOfTerminals ==
    (dsl = "string" /\ pc = "dedup") =>
        ConcatenatePairs(grown_programs)
            = Range(current_programs) \X Range(current_programs)


\* C23: with a logger attached, every LLMStringSynthesizer.synthesize call
\* that reaches the external service appends exactly one record to the log
\* file, whether it succeeds, the response fails to parse, or the parsed
\* program fails validation.
C23_OneRecordPerCall ==
    (dsl = "llm" /\ logger # NoLogger /\ examples # <<>> /\ Terminated) =>
        Len(log_file) = ncalls


MatchesAllPoints(shape, exs) ==
    \A i \in DOMAIN exs :
        ShapeInterpret(shape, <<exs[i][1], exs[i][2]>>) = exs[i][3]

C26_IndexingNeverFails ==
    pc = "interpreted" =>
        /\ ~interpret_outcome.err
        /\ (/\ interpret_call.e.op = "Substring"
            /\ interpret_call.e.start_idx >= Len(interpret_call.input_string))
              => interpret_outcome.val = <<>>
        /\ (/\ interpret_call.e.op = "SplitThenTake"
            /\ interpret_call.e.index > Len(interpret_call.input_string))
              => interpret_outcome.val = <<>>


\* the positions of a list holding the first program of a non-failing
\* signature
FirstOfSignature(programs) ==
    {i \in DOMAIN programs :
        /\ SigOf(programs[i]).kind = "ok"
        /\ \A j \in 1..(i - 1) : SigOf(programs[j]) # SigOf(programs[i])}

\* C27: eliminate_equivalents yields programs in the order of its input list,
\* and the program kept for a signature is the first program of the list
\* with that signature: a later program never replaces an earlier one.
C27_FirstOfSignatureInOrder ==
    pc \in {"check0", "check"} =>
        LET first == FirstOfSignature(DedupInput)
        IN  /\ Len(DedupOutput) = Cardinality(first)
            /\ \A k \in DOMAIN DedupOutput :
                  DedupOutput[k] =
                      DedupInput[CHOOSE i \in first :
                                    Cardinality({j \in first : j <= i}) = k]

\* C27 witness: a growth round offered two different programs of one
\* signature, kept the earlier one, and kept a program of another signature
\* after it.
C27_Witness ==
    /\ pc = "check"
    /\ Len(new_unique_programs) >= 2
    /\ \E i \in DOMAIN grown_programs, j \in DOMAIN grown_programs :
          /\ i < j
          /\ grown_programs[i] # grown_programs[j]
          /\ SigOf(grown_programs[i]) = SigOf(grown_programs[j])
          /\ new_unique_programs[1] = grown_programs[i]
          /\ grown_programs[j] \notin Range(new_unique_programs)


\* no two positions of the list hold programs of the same signature
DistinctSignatures(programs) ==
    \A i \in DOMAIN programs : \A j \in DOMAIN programs :
        i # j => SigOf(programs[i]) # SigOf(programs[j])

\* the signatures of the programs of a list
SignaturesOf(programs) == {SigOf(programs[i]) : i \in DOMAIN programs}

\* C28: in accumulating mode the growth base left by every round holds no
\* two programs of the same signature; the programs it already held stay,
\* in place, and a program of the round whose signature is already in the
\* base is left out.
C28_AccumulatedBaseDeduplicated ==
    [][(accumulate_programs /\ pc \in {"check0", "check"}
            /\ pc' \in {"grow", "raise"}) =>
          /\ DistinctSignatures(all_programs')
          /\ pc = "check" =>
                /\ Len(all_programs') >= Len(all_programs)
                /\ SubSeq(all_programs', 1, Len(all_programs)) = all_programs
                /\ \A k \in DOMAIN new_unique_programs :
                      LET added == SubSeq(all_programs',
                                          Len(all_programs) + 1,
                                          Len(all_programs'))
                      IN  (new_unique_programs[k] \in Range(added))
                             <=> (SigOf(new_unique_programs[k])
                                     \notin SignaturesOf(all_programs))]_vars

\* C28 witness: an accumulating call finished a round in which a survivor
\* had the signature of a different program of the base; the base kept the
\* older program and took in another survivor of the round.
C28_Witness ==
    /\ accumulate_programs
    /\ pc \in {"grow", "raise"}
    /\ iteration >= 2
    /\ Len(all_programs) > Len(grow_base)
    /\ \E p \in Range(new_unique_programs), q \in Range(grow_base) :
          /\ p # q
          /\ SigOf(p) = SigOf(q)
          /\ q \in Range(all_programs)
          /\ p \notin Range(all_programs)


\* C29: in the shape synthesizer (non-accumulating mode) every signature
\* that has a survivor in one round has a survivor in the next round, and
\* no round is left without survivors once round 0 had one.
C29_SignatureClassesPersist ==
    (dsl = "shape" /\ ~accumulate_programs) =>
        \A k \in 2..Len(rounds) :
            /\ SignaturesOf(rounds[k - 1]) \subseteq SignaturesOf(rounds[k])
            /\ rounds[1] # <<>> => rounds[k] # <<>>

\* C29 witness: a shape call went through two growth rounds, and a survivor
\* of round 0 is not itself among the survivors of round 1: its signature
\* is carried by another program.
C29_Witness ==
    /\ dsl = "shape"
    /\ ~accumulate_programs
    /\ Len(rounds) >= 3
    /\ rounds[1] # <<>>
    /\ \E p \in Range(rounds[1]) : p \notin Range(rounds[2])


\* C30: when grow of the string synthesizer leaves through an early return
\* of the task heuristics, its result is a single program that is correct
\* on all the examples, and synthesize returns that program in the same
\* round: the call makes no second grow call.
C30_EarlyExitReturnsInSameRound ==
    (dsl = "string" /\ "grow" \in called /\ grow_returns_early(examples)) =>
        /\ pc \in {"dedup", "check", "returned"}
        /\ GrowCalls = 1
        /\ Len(grown_programs) = 1
        /\ StringIsCorrect(grown_programs[1], examples)
        /\ pc = "check" => new_unique_programs = grown_programs
        /\ pc = "returned" => result = grown_programs[1]

\* C30 witness: a call allowed two growth rounds returned the single program
\* of an early return of its first grow call.
C30_Witness ==
    /\ dsl = "string"
    /\ pc = "returned"
    /\ max_iterations >= 2
    /\ "grow" \in called
    /\ grow_returns_early(examples)
    /\ grown_programs = <<result>>

=============================================================================
